---- MODULE Spec2Model ----
(***************************************************************************)
(* Channel abstraction and HSV normalisation / conversion of color-thing   *)
(* (src/src/channel.rs, src/src/hsv.rs).                                   *)
(*                                                                         *)
(* f32 values are modelled bit-exactly for finite normal numbers: a float  *)
(* is a pair <<m, e>> standing for m * 2^e, kept canonical (m = 0 /\ e = 0,*)
(* or m odd), with |m| < 2^MantBits.  Every arithmetic operator rounds to  *)
(* nearest, ties to even, as IEEE 754 binary32 does.  Infinities, NaN,     *)
(* subnormals and exponent overflow are outside the model.                 *)
(***************************************************************************)
EXTENDS Integers, Naturals, Sequences, FiniteSets, TLC

\* Precision of the f32 significand, in bits.
MantBits == 24

\* Half of MantBits: the limb width used to multiply two significands
\* without leaving the checker's integer range.
LimbBits == 12

Pow2(n) == 2 ^ n

Abs(x) == IF x < 0 THEN -x ELSE x

Sgn(x) == IF x < 0 THEN -1 ELSE 1

RECURSIVE BitLen(_)
BitLen(n) == IF n = 0 THEN 0 ELSE 1 + BitLen(n \div 2)

RECURSIVE Canon(_, _)
\* The canonical pair standing for m * 2^e.
Canon(m, e) ==
    IF m = 0 THEN <<0, 0>>
    ELSE IF m % 2 = 0 THEN Canon(m \div 2, e + 1)
    ELSE <<m, e>>

\* kept * 2^e with the dropped bits rem (out of 2 * half) and, when sticky,
\* a non-zero tail below them: rounded to nearest, ties to even.
RoundUp(kept, rem, half, e, sticky) ==
    IF rem > half \/ (rem = half /\ (sticky \/ kept % 2 = 1))
    THEN Canon(kept + 1, e)
    ELSE Canon(kept, e)

\* n * 2^e with its last drop bits rounded away.
RoundDrop(n, e, sticky, drop) ==
    IF drop <= 0 THEN Canon(n, e)
    ELSE RoundUp(n \div Pow2(drop), n % Pow2(drop), Pow2(drop - 1), e + drop, sticky)

\* n * 2^e (n >= 0, plus a non-zero tail below its last bit when sticky)
\* rounded to MantBits significant bits, ties to even.
RoundSig(n, e, sticky) == RoundDrop(n, e, sticky, BitLen(n) - MantBits)

\* The float of magnitude r and the sign of sg.
Signed(sg, r) == <<sg * r[1], r[2]>>

F(m, e) == Canon(m, e)

FZero == <<0, 0>>

FOne == <<1, 0>>

FNeg(a) == <<-a[1], a[2]>>

FAbs(a) == <<Abs(a[1]), a[2]>>

\* The position of the leading bit of |a| (a # 0).
FTop(a) == BitLen(Abs(a[1])) + a[2]

\* The significand of |a| shifted to exactly MantBits bits.
FNorm(a) == Abs(a[1]) * Pow2(MantBits - BitLen(Abs(a[1])))

\* The exponent that goes with FNorm(a).
FNormExp(a) == a[2] - (MantBits - BitLen(Abs(a[1])))

\* |a| < |b| for non-zero a and b, given the positions of their leading bits
MagLtTop(a, b, ta, tb) == IF ta # tb THEN ta < tb ELSE FNorm(a) < FNorm(b)

\* |a| < |b|
FMagLt(a, b) ==
    IF b[1] = 0 THEN FALSE
    ELSE IF a[1] = 0 THEN TRUE
    ELSE MagLtTop(a, b, FTop(a), FTop(b))

FLt(a, b) ==
    IF a[1] < 0 /\ b[1] >= 0 THEN TRUE
    ELSE IF a[1] >= 0 /\ b[1] < 0 THEN FALSE
    ELSE IF a[1] >= 0 THEN FMagLt(a, b)
    ELSE FMagLt(b, a)

FLe(a, b) == a = b \/ FLt(a, b)

\* hi * 2^MantBits + lo (lo < 2^MantBits), times 2^e, rounded.
RoundWide(hi, lo, e, n) ==
    IF hi = 0 THEN Canon(lo, e)
    ELSE RoundUp(hi * Pow2(MantBits - n) + (lo \div Pow2(n)),
                 lo % Pow2(n), Pow2(n - 1), e + n, FALSE)

\* The product from its partial products: p2 * L^2 + p1 * L + p0, where
\* ls is the sum of the parts below W = L^2.
MulSum(p2, p1, ls, L, W, e) ==
    RoundWide(p2 + (p1 \div L) + (ls \div W), ls % W, e,
              BitLen(p2 + (p1 \div L) + (ls \div W)))

\* The limbs a1, a0 of |a| and b1, b0 of |b| multiplied.
MulLimbs(a1, a0, b1, b0, L, e) ==
    MulSum(a1 * b1, a1 * b0 + a0 * b1,
           a0 * b0 + ((a1 * b0 + a0 * b1) % L) * L, L, L * L, e)

MulAbs(A, B, L, e) == MulLimbs(A \div L, A % L, B \div L, B % L, L, e)

FMul(a, b) ==
    Signed(Sgn(a[1]) * Sgn(b[1]),
           MulAbs(Abs(a[1]), Abs(b[1]), Pow2(LimbBits), a[2] + b[2]))

RECURSIVE DivBits(_, _, _, _)
\* k more quotient bits of r / d by long division: <<quotient, remainder>>.
DivBits(q, r, d, k) ==
    IF k = 0 THEN <<q, r>>
    ELSE IF 2 * r >= d THEN DivBits(2 * q + 1, 2 * r - d, d, k - 1)
    ELSE DivBits(2 * q, 2 * r, d, k - 1)

\* The quotient of A * 2^e by B (B <= A < 2 * B), from its first
\* MantBits + 2 bits and the remainder.
DivRound(qr, e) == RoundSig(qr[1], e - (MantBits + 1), qr[2] # 0)

\* The quotient of the normalized significands A * 2^ea and B * 2^eb.
DivNorm(A, B, ea, eb) ==
    IF A < B THEN DivRound(DivBits(1, 2 * A - B, B, MantBits + 1), ea - 1 - eb)
    ELSE DivRound(DivBits(1, A - B, B, MantBits + 1), ea - eb)

FDiv(a, b) ==
    IF a[1] = 0 THEN FZero
    ELSE Signed(Sgn(a[1]) * Sgn(b[1]),
                DivNorm(FNorm(a), FNorm(b), FNormExp(a), FNormExp(b)))

\* x + y where the exponents are close: the sum s * 2^e is exact.
AddNear(s, e) == Signed(Sgn(s), RoundSig(Abs(s), e, FALSE))

\* X * 2^ex plus or minus |y| shifted right by sh bits; a discarded tail
\* makes a difference one unit smaller and leaves a non-zero tail behind.
AddShift(X, ex, Y, st, same) ==
    RoundSig(IF same THEN X + Y ELSE IF st THEN X - Y - 1 ELSE X - Y, ex, st)

\* x + y where |y| is far below |x|: x is given MantBits + 3 bits (its
\* length is lx) and y is shifted to its exponent.
AddFar(x, y, lx, sh) ==
    Signed(Sgn(x[1]),
           AddShift(Abs(x[1]) * Pow2(MantBits + 3 - lx),
                    x[2] - (MantBits + 3 - lx),
                    IF sh > MantBits THEN 0 ELSE Abs(y[1]) \div Pow2(sh),
                    IF sh > MantBits THEN TRUE ELSE Abs(y[1]) % Pow2(sh) # 0,
                    Sgn(x[1]) = Sgn(y[1])))

\* x + y for non-zero x, y with x[2] >= y[2].
AddOrdered(x, y, lx) ==
    IF lx + (x[2] - y[2]) <= MantBits + 5
    THEN AddNear(x[1] * Pow2(x[2] - y[2]) + y[1], y[2])
    ELSE AddFar(x, y, lx, (x[2] - y[2]) + lx - (MantBits + 3))

FAdd(a, b) ==
    IF a[1] = 0 THEN b
    ELSE IF b[1] = 0 THEN a
    ELSE IF a[2] < b[2] THEN AddOrdered(b, a, BitLen(Abs(b[1])))
    ELSE AddOrdered(a, b, BitLen(Abs(a[1])))

FSub(a, b) == FAdd(a, FNeg(b))

\* a % 2.0: the remainder keeps the sign of a and is exact.
FMod2(a) ==
    IF a[2] >= 1 THEN FZero
    ELSE IF -a[2] >= MantBits THEN a
    ELSE Canon(Sgn(a[1]) * (Abs(a[1]) % Pow2(1 - a[2])), a[2])

\* q + r / k rounded to the nearest integer, ties away from zero.
RoundHalfAway(q, r, k) == IF 2 * r >= k THEN q + 1 ELSE q

\* f32::round: to the nearest integer, ties away from zero.
FRound(a) ==
    IF a[2] >= 0 THEN a
    ELSE IF -a[2] > MantBits THEN FZero
    ELSE Canon(Sgn(a[1]) * RoundHalfAway(Abs(a[1]) \div Pow2(-a[2]),
                                         Abs(a[1]) % Pow2(-a[2]), Pow2(-a[2])), 0)

\* The integer part of a, towards zero, as a float.
FTrunc(a) ==
    IF a[2] >= 0 THEN a
    ELSE IF -a[2] >= MantBits THEN FZero
    ELSE Canon(Sgn(a[1]) * (Abs(a[1]) \div Pow2(-a[2])), 0)

\* The value of an integral float that fits the checker's integers.
FInt(a) == a[1] * Pow2(a[2])

\* An integer (|n| < 2^31) as the nearest f32.
IntToF(n) == Signed(Sgn(n), RoundSig(Abs(n), 0, FALSE))

(***************************************************************************)
(* Channel types.  A value of u8 or u16 is an integer; a value of u32 is   *)
(* a pair <<hi, lo>> of 16-bit halves (hi * 2^16 + lo); a value of f32 or  *)
(* of AngleDeg<f32> ("deg") is a float pair.                               *)
(***************************************************************************)
UIntTypes == {"u8", "u16", "u32"}

FloatTypes == {"f32", "deg"}

ChannelTypes == UIntTypes \cup FloatTypes

\* Width of one half of a u32 value.
HalfBits == 16

\* Degrees in one full turn: the ch_max of AngleDeg.
FullTurn == 360

\* Degrees in one hue sector.
SectorDeg == 60

Bits(t) == CASE t = "u8" -> 8 [] t = "u16" -> 16 [] t = "u32" -> 32

INTEGER(t) == t \in UIntTypes

ch_max(t) ==
    CASE t = "u8"  -> Pow2(8) - 1
      [] t = "u16" -> Pow2(16) - 1
      [] t = "u32" -> <<Pow2(HalfBits) - 1, Pow2(HalfBits) - 1>>
      [] t = "f32" -> FOne
      [] t = "deg" -> IntToF(FullTurn)

ch_zero(t) ==
    CASE t \in {"u8", "u16"} -> 0
      [] t = "u32" -> <<0, 0>>
      [] OTHER     -> FZero

\* PartialOrd on channel values: a < b.
ch_lt(t, a, b) ==
    CASE t \in {"u8", "u16"} -> a < b
      [] t = "u32" -> a[1] < b[1] \/ (a[1] = b[1] /\ a[2] < b[2])
      [] OTHER     -> FLt(a, b)

\* u32 as f32: the nearest float to hi * 2^16 + lo.
U32ToF(v) ==
    IF v[1] < Pow2(HalfBits - 1) THEN IntToF(v[1] * Pow2(HalfBits) + v[2])
    ELSE RoundUp(v[1] * Pow2(MantBits - HalfBits)
                     + (v[2] \div Pow2(2 * HalfBits - MantBits)),
                 v[2] % Pow2(2 * HalfBits - MantBits),
                 Pow2(2 * HalfBits - MantBits - 1),
                 2 * HalfBits - MantBits, FALSE)

\* An integral non-negative float below 2^32 as a u32 value.
FToU32(a) ==
    IF a[2] >= HalfBits THEN <<a[1] * Pow2(a[2] - HalfBits), 0>>
    ELSE <<a[1] \div Pow2(HalfBits - a[2]),
           (a[1] % Pow2(HalfBits - a[2])) * Pow2(a[2])>>

\* cuwtf: cast to f32 and unwrap; no channel value is outside f32's range.
cuwtf(t, v) ==
    CASE t \in {"u8", "u16"} -> IntToF(v)
      [] t = "u32" -> U32ToF(v)
      [] OTHER     -> v

\* The checked cast of NumCast: defined on the open interval (-1, 2^bits)
\* for an unsigned integer target, truncating towards zero.
cast_fits(t, f) ==
    IF INTEGER(t) THEN FLt(FNeg(FOne), f) /\ FLt(f, <<1, Bits(t)>>) ELSE TRUE

\* cuwf: cast from f32 and unwrap: [ok |-> FALSE] stands for the panic of
\* unwrapping None.
cuwf(t, f) ==
    IF ~cast_fits(t, f) THEN [ok |-> FALSE, v |-> ch_zero(t)]
    ELSE [ok |-> TRUE,
          v  |-> CASE t \in {"u8", "u16"} -> FInt(FTrunc(f))
                   [] t = "u32" -> FToU32(FTrunc(f))
                   [] OTHER     -> f]

clamp(t, v) ==
    IF ch_lt(t, ch_max(t), v) THEN ch_max(t)
    ELSE IF ch_lt(t, v, ch_zero(t)) THEN ch_zero(t)
    ELSE v

in_range(t, v) == ~ch_lt(t, ch_max(t), v) /\ ~ch_lt(t, v, ch_zero(t))

\* A faulty conv: the source and the target scale exchanged.
conv_float_swapped(s, t, v) ==
    FMul(FDiv(cuwtf(s, clamp(s, v)), cuwtf(t, ch_max(t))), cuwtf(s, ch_max(s)))

\* The rescaled fraction of conv, before the cast.
conv_float(s, t, v) ==
    FMul(FDiv(cuwtf(s, clamp(s, v)), cuwtf(s, ch_max(s))), cuwtf(t, ch_max(t)))

\* Channel::conv::<t> of a value v of type s.
conv(s, t, v) ==
    IF INTEGER(t) THEN cuwf(t, FRound(conv_float(s, t, v)))
    ELSE cuwf(t, conv_float(s, t, v))

RECURSIVE wrap(_)
\* An angle in degrees brought into [0, 360) by whole turns.
wrap(a) ==
    IF FLt(a, FZero) THEN wrap(FAdd(a, IntToF(FullTurn)))
    ELSE IF ~FLt(a, IntToF(FullTurn)) THEN wrap(FSub(a, IntToF(FullTurn)))
    ELSE a

\* to_range: the hue angle wraps, every other channel clamps.
to_range(t, v) == IF t = "deg" THEN wrap(v) ELSE clamp(t, v)


(***************************************************************************)
(* HSV colors: a record [h, s, v] whose hue has channel type H and whose   *)
(* saturation and value have channel type T.  The color-space tag is a     *)
(* phantom and carries no state.                                           *)
(***************************************************************************)
hsv_default(H, T) == [h |-> ch_zero(H), s |-> ch_zero(T), v |-> ch_zero(T)]

\* A faulty normalize: a grey color keeps its hue, brought into range.
normalize_grey_keeps_hue(H, T, c) ==
    IF c.v = ch_zero(T) THEN hsv_default(H, T)
    ELSE [h |-> to_range(H, c.h), s |-> to_range(T, c.s), v |-> to_range(T, c.v)]

\* A faulty normalize: the saturation is left as it came.
normalize_raw_saturation(H, T, c) ==
    IF c.v = ch_zero(T) THEN hsv_default(H, T)
    ELSE IF c.s = ch_zero(T)
    THEN [h |-> ch_zero(H), s |-> ch_zero(T), v |-> to_range(T, c.v)]
    ELSE [h |-> to_range(H, c.h), s |-> c.s, v |-> to_range(T, c.v)]

normalize(H, T, c) ==
    IF c.v = ch_zero(T) THEN hsv_default(H, T)
    ELSE IF c.s = ch_zero(T)
    THEN [h |-> ch_zero(H), s |-> ch_zero(T), v |-> to_range(T, c.v)]
    ELSE [h |-> to_range(H, c.h), s |-> to_range(T, c.s), v |-> to_range(T, c.v)]

is_normal(H, T, c) ==
    IF ~in_range(H, c.h) \/ ~in_range(T, c.s) \/ ~in_range(T, c.v) THEN FALSE
    ELSE IF c.v = ch_zero(T) THEN c.h = ch_zero(H) /\ c.s = ch_zero(T)
    ELSE IF c.s = ch_zero(T) THEN c.h = ch_zero(H)
    ELSE TRUE

new(H, T, h, s, v) == normalize(H, T, [h |-> h, s |-> s, v |-> v])

\* Three cast results as one HSV color; ok is FALSE when a cast panicked.
hsv_of(h, s, v) ==
    [ok |-> h.ok /\ s.ok /\ v.ok, c |-> [h |-> h.v, s |-> s.v, v |-> v.v]]

\* HSVColor::conv::<H2, T2>: every channel rescaled on its own.
hsv_conv(H, T, H2, T2, c) ==
    hsv_of(conv(H, H2, c.h), conv(T, T2, c.s), conv(T, T2, c.v))

\* `h as u8`: the float-to-integer cast of the language, saturating.
as_u8(h) ==
    IF FLt(h, FOne) THEN 0
    ELSE IF ~FLt(h, IntToF(Pow2(8) - 1)) THEN Pow2(8) - 1
    ELSE FInt(FTrunc(h))

\* The hue of a color in sectors of 60 degrees.
hue_sectors(H, h) == FDiv(cuwtf("deg", conv(H, "deg", h).v), IntToF(SectorDeg))

\* The arms of the match on the sector: the components before the offset;
\* any sector but 0..6 is the panic "Invalid hue value".
\* A faulty sector match: the arm of sector 5 does not take sector 6.
sector_rgb_without_six(sec, c, x) ==
    CASE sec = 0 -> [ok |-> TRUE, r |-> c, g |-> x, b |-> FZero]
      [] sec = 1 -> [ok |-> TRUE, r |-> x, g |-> c, b |-> FZero]
      [] sec = 2 -> [ok |-> TRUE, r |-> FZero, g |-> c, b |-> x]
      [] sec = 3 -> [ok |-> TRUE, r |-> FZero, g |-> x, b |-> c]
      [] sec = 4 -> [ok |-> TRUE, r |-> x, g |-> FZero, b |-> c]
      [] sec = 5 -> [ok |-> TRUE, r |-> c, g |-> FZero, b |-> x]
      [] OTHER -> [ok |-> FALSE, r |-> FZero, g |-> FZero, b |-> FZero]

\* A faulty sector match: sector 1 repeats the arm of sector 0.
sector_rgb_repeated_arm(sec, c, x) ==
    CASE sec = 0 -> [ok |-> TRUE, r |-> c, g |-> x, b |-> FZero]
      [] sec = 1 -> [ok |-> TRUE, r |-> c, g |-> x, b |-> FZero]
      [] sec = 2 -> [ok |-> TRUE, r |-> FZero, g |-> c, b |-> x]
      [] sec = 3 -> [ok |-> TRUE, r |-> FZero, g |-> x, b |-> c]
      [] sec = 4 -> [ok |-> TRUE, r |-> x, g |-> FZero, b |-> c]
      [] sec \in {5, 6} -> [ok |-> TRUE, r |-> c, g |-> FZero, b |-> x]
      [] OTHER -> [ok |-> FALSE, r |-> FZero, g |-> FZero, b |-> FZero]

sector_rgb(sec, c, x) ==
    CASE sec = 0 -> [ok |-> TRUE, r |-> c, g |-> x, b |-> FZero]
      [] sec = 1 -> [ok |-> TRUE, r |-> x, g |-> c, b |-> FZero]
      [] sec = 2 -> [ok |-> TRUE, r |-> FZero, g |-> c, b |-> x]
      [] sec = 3 -> [ok |-> TRUE, r |-> FZero, g |-> x, b |-> c]
      [] sec = 4 -> [ok |-> TRUE, r |-> x, g |-> FZero, b |-> c]
      [] sec \in {5, 6} -> [ok |-> TRUE, r |-> c, g |-> FZero, b |-> x]
      [] OTHER -> [ok |-> FALSE, r |-> FZero, g |-> FZero, b |-> FZero]

\* RGBColor built from a tuple of channels: each component clamped.
rgb_from(T, r, g, b) == [r |-> clamp(T, r), g |-> clamp(T, g), b |-> clamp(T, b)]

\* The result of rgb() from the three casts back into T.
rgb_of(T, pre, sec, r, g, b) ==
    [hue_ok  |-> pre.ok,
     cast_ok |-> r.ok /\ g.ok /\ b.ok,
     sector  |-> sec,
     pre     |-> <<pre.r, pre.g, pre.b>>,
     c       |-> rgb_from(T, r.v, g.v, b.v)]

\* HSVColor::rgb.  hue_ok is FALSE for the panic of the match, cast_ok for
\* the panic of a failed cast of a component back into T.
rgb(H, T, col) ==
    LET offset(pre, sec, min) ==
            rgb_of(T, pre, sec, cuwf(T, FAdd(pre.r, min)),
                   cuwf(T, FAdd(pre.g, min)), cuwf(T, FAdd(pre.b, min)))
        select(sec, c, x, min) == offset(sector_rgb(sec, c, x), sec, min)
        chroma(h, v, c) ==
            select(as_u8(h), c,
                   FMul(c, FSub(FOne, FAbs(FSub(FMod2(h), FOne)))),
                   FSub(v, c))
        floats(h, s, v) == chroma(h, v, FMul(s, v))
    IN  floats(hue_sectors(H, col.h), cuwtf(T, col.s), cuwtf(T, col.v))

\* Three cast results as one RGB color; ok is FALSE when a cast panicked.
rgb_of_casts(r, g, b) ==
    [ok |-> r.ok /\ g.ok /\ b.ok, c |-> [r |-> r.v, g |-> g.v, b |-> b.v]]

\* RGBColor::conv::<T2>: every channel rescaled on its own.
rgb_conv(T, T2, c) ==
    rgb_of_casts(conv(T, T2, c.r), conv(T, T2, c.g), conv(T, T2, c.b))

FMax(a, b) == IF FLt(a, b) THEN b ELSE a

FMin(a, b) == IF FLt(b, a) THEN b ELSE a

\* The hue in sectors from the largest component and the chroma.
hue_six(c, max, chroma) ==
    IF chroma = FZero THEN FZero
    ELSE IF max = c.r THEN FDiv(FSub(c.g, c.b), chroma)
    ELSE IF max = c.g THEN FAdd(FDiv(FSub(c.b, c.r), chroma), IntToF(2))
    ELSE FAdd(FDiv(FSub(c.r, c.g), chroma), IntToF(4))

\* RGBColor<f32>::hsv: value is the largest component, chroma the spread,
\* saturation chroma / value, the hue taken from the component that is the
\* largest and the signed difference of the other two; then normalized.
hsv(c) ==
    LET polar(max, chroma) ==
            new("deg", "f32",
                FMul(IntToF(SectorDeg), hue_six(c, max, chroma)),
                IF max = FZero THEN FZero ELSE FDiv(chroma, max),
                max)
        spread(max, min) == polar(max, FSub(max, min))
    IN  spread(FMax(c.r, FMax(c.g, c.b)), FMin(c.r, FMin(c.g, c.b)))

(***************************************************************************)
(* Inputs.                                                                 *)
(***************************************************************************)
\* How many values next to each end of an integer channel's range are tried.
EdgeWidth == 1

\* Saturation and value of a float color are tried in steps of 1 / FracDen,
\* from -1 to 2.
FracDen == 2

\* Hue angles are tried in steps of HueStep degrees, from HueBelow steps
\* below zero to HueAbove steps above it.
HueStep == 50

HueBelow == 2

HueAbove == 8

UIntSamples(t) ==
    LET max == ch_max(t)
    IN  (0 .. EdgeWidth) \cup ((max - EdgeWidth) .. max)
        \cup {55, 100, max \div 2, max \div 2 + 1}

\* A float of 2^-TinyBits: non-zero, and rounded to zero by a conv to an
\* integer channel of fewer bits.
TinyBits == 10

FracSamples ==
    {FDiv(IntToF(k), IntToF(FracDen)) : k \in (-FracDen) .. (2 * FracDen)}
    \cup {IntToF(-5), F(1, -TinyBits)}

HueSamples == {IntToF(k * HueStep) : k \in (-HueBelow) .. HueAbove} \cup {IntToF(-90)}

Samples(t) ==
    CASE t \in {"u8", "u16"} -> UIntSamples(t)
      [] t = "f32" -> FracSamples
      [] t = "deg" -> HueSamples

\* The channel types an HSV color is built over: <<hue type, s/v type>>.
HsvTypes == {<<"deg", "f32">>, <<"u8", "u8">>, <<"u16", "u16">>}

(***************************************************************************)
(* State.  ops is the trail of operations applied so far, origin the first *)
(* input, prev and cur the color before and after the last operation, each *)
(* with its channel types; ok is FALSE once an operation has panicked; aux *)
(* keeps what rgb() computed on the way (sector, components before the     *)
(* offset).                                                                *)
(***************************************************************************)
VARIABLES ops, origin, prev, cur, ok, aux

vars == <<ops, origin, prev, cur, ok, aux>>

NoAux == [sector |-> 0, pre |-> <<FZero, FZero, FZero>>, hue_ok |-> TRUE]

Black == [ty |-> <<"u8", "u8">>, c |-> hsv_default("u8", "u8")]

Init ==
    /\ ops = <<>>
    /\ origin = Black
    /\ prev = Black
    /\ cur = Black
    /\ ok = TRUE
    /\ aux = NoAux

Last == IF ops = <<>> THEN "none" ELSE ops[Len(ops)]

\* HSVColor::new(h, s, v)
New(H, T, h, s, v) ==
    /\ ops = <<>>
    /\ ops' = <<"new">>
    /\ origin' = [ty |-> <<H, T>>, c |-> [h |-> h, s |-> s, v |-> v]]
    /\ prev' = origin'
    /\ cur' = [ty |-> <<H, T>>, c |-> new(H, T, h, s, v)]
    /\ UNCHANGED <<ok, aux>>

\* normalize() on the HSV color held
Normalize ==
    /\ ok /\ Last \in {"new", "hsv"}
    /\ ops' = Append(ops, "normalize")
    /\ prev' = cur
    /\ cur' = [ty |-> cur.ty, c |-> normalize(cur.ty[1], cur.ty[2], cur.c)]
    /\ UNCHANGED <<origin, ok, aux>>

\* conv::<H2, T2>() on the HSV color held
Conv(H2, T2) ==
    /\ ok /\ Last = "new"
    /\ ops' = Append(ops, "conv")
    /\ prev' = cur
    /\ \E r \in {hsv_conv(cur.ty[1], cur.ty[2], H2, T2, cur.c)} :
         /\ cur' = [ty |-> <<H2, T2>>, c |-> r.c]
         /\ ok' = r.ok
    /\ UNCHANGED <<origin, aux>>

\* rgb() on the HSV color held
Rgb ==
    /\ ok /\ Last \in {"new", "normalize"}
    /\ ops' = Append(ops, "rgb")
    /\ prev' = cur
    /\ \E r \in {rgb(cur.ty[1], cur.ty[2], cur.c)} :
         /\ cur' = [ty |-> <<cur.ty[2]>>, c |-> r.c]
         /\ ok' = (r.hue_ok /\ r.cast_ok)
         /\ aux' = [sector |-> r.sector, pre |-> r.pre, hue_ok |-> r.hue_ok]
    /\ UNCHANGED origin

Next ==
    \/ \E ty \in HsvTypes :
         \E h \in Samples(ty[1]) : \E s, v \in Samples(ty[2]) :
           New(ty[1], ty[2], h, s, v)
    \/ Normalize
    \/ \E ty \in HsvTypes : Conv(ty[1], ty[2])
    \/ Rgb

Spec == Init /\ [][Next]_vars

(***************************************************************************)
(* A single channel value rescaled to another channel type and back.       *)
(***************************************************************************)
\* Values of u16 are tried at every multiple of U16Stride.
U16Stride == 257

ChanSamples(t) ==
    IF t = "u8" THEN 0 .. ch_max(t)
    ELSE UIntSamples(t)
         \cup {k * U16Stride : k \in 0 .. (ch_max(t) \div U16Stride)}

\* v.conv::<A>() for a value v of type S
ConvTo(S, A, v) ==
    /\ ops = <<>>
    /\ ops' = <<"conv_to">>
    /\ origin' = [ty |-> <<S>>, c |-> v]
    /\ prev' = origin'
    /\ \E r \in {conv(S, A, v)} :
         /\ cur' = [ty |-> <<A>>, c |-> r.v]
         /\ ok' = r.ok
    /\ UNCHANGED aux

\* conv back to the type the value came from
ConvBack ==
    /\ ok /\ ops = <<"conv_to">>
    /\ ops' = Append(ops, "conv_back")
    /\ prev' = cur
    /\ \E r \in {conv(cur.ty[1], origin.ty[1], cur.c)} :
         /\ cur' = [ty |-> origin.ty, c |-> r.v]
         /\ ok' = r.ok
    /\ UNCHANGED <<origin, aux>>

NextConv ==
    \/ \E S \in {"u8", "u16"} : \E A \in ChannelTypes :
         \E v \in ChanSamples(S) : ConvTo(S, A, v)
    \/ ConvBack

SpecConv == Init /\ [][NextConv]_vars

(***************************************************************************)
(* An RGB color taken to HSV and back, as the test rgb_to_hsv does.        *)
(***************************************************************************)
\* RGBColor::new(r, g, b) over u8
Load(r, g, b) ==
    /\ ops = <<>>
    /\ ops' = <<"load">>
    /\ origin' = [ty |-> <<"u8">>, c |-> rgb_from("u8", r, g, b)]
    /\ prev' = origin'
    /\ cur' = origin'
    /\ UNCHANGED <<ok, aux>>

\* conv::<T2>() on the RGB color held
RgbConv(T2) ==
    /\ ok /\ ops \in {<<"load">>, <<"load", "conv", "hsv", "normalize", "rgb">>}
    /\ ops' = Append(ops, "conv")
    /\ prev' = cur
    /\ \E r \in {rgb_conv(cur.ty[1], T2, cur.c)} :
         /\ cur' = [ty |-> <<T2>>, c |-> r.c]
         /\ ok' = r.ok
    /\ UNCHANGED <<origin, aux>>

\* hsv() on the float RGB color held
Hsv ==
    /\ ok /\ ops = <<"load", "conv">> /\ cur.ty = <<"f32">>
    /\ ops' = Append(ops, "hsv")
    /\ prev' = cur
    /\ cur' = [ty |-> <<"deg", "f32">>, c |-> hsv(cur.c)]
    /\ UNCHANGED <<origin, ok, aux>>

NextRT ==
    \/ \E r, g, b \in UIntSamples("u8") : Load(r, g, b)
    \/ \E T2 \in {"u8", "u16", "f32"} : RgbConv(T2)
    \/ Hsv
    \/ Normalize
    \/ Rgb

SpecRT == Init /\ [][NextRT]_vars

(***************************************************************************)
(* Properties.                                                             *)
(***************************************************************************)
H0 == origin.ty[1]

T0 == origin.ty[2]

IsBlack(c, H, T) == c = hsv_default(H, T)

\* r is v brought into [zero, max] of channel type t by clamping.
Clamped(t, v, r) ==
    /\ in_range(t, r)
    /\ in_range(t, v) => r = v
    /\ ch_lt(t, ch_max(t), v) => r = ch_max(t)
    /\ ch_lt(t, v, ch_zero(t)) => r = ch_zero(t)

\* r is the hue h brought into one turn: by whole turns for an angle.
Wrapped(t, h, r) ==
    IF t = "deg"
    THEN /\ ~FLt(r, FZero) /\ FLt(r, IntToF(FullTurn))
         /\ \E k \in -3 .. 3 : FAdd(r, IntToF(k * FullTurn)) = h
    ELSE r = h

\* The color of the test `normalization`: (-90 degrees, 2.0, -5.0).
TestColor == [h |-> IntToF(-90), s |-> IntToF(2), v |-> IntToF(-5)]

\* C1: every color returned by HSVColor::new satisfies is_normal.
C1_NewIsNormal ==
    ops = <<"new">> => is_normal(cur.ty[1], cur.ty[2], cur.c)

\* C2: normalize is idempotent: normalizing the result of new (itself a
\* normalize) changes nothing.
C2_NormalizeIdempotent ==
    ops = <<"new", "normalize">> => cur.c = prev.c

\* C3: the collapse to black is decided on the clamped value: an input
\* whose value clamps to zero normalizes to (0, 0, 0), whatever its hue and
\* saturation.
C3_CollapseOnClampedValue ==
    (ops = <<"new">> /\ clamp(T0, origin.c.v) = ch_zero(T0))
        => IsBlack(cur.c, H0, T0)

\* C4 as claimed: a zero value gives black; a zero saturation with a
\* non-zero value gives hue zero and the value unchanged.
C4_GreyKeepsValue ==
    ops = <<"new">> =>
        /\ origin.c.v = ch_zero(T0) => IsBlack(cur.c, H0, T0)
        /\ (origin.c.v # ch_zero(T0) /\ origin.c.s = ch_zero(T0)) =>
              cur.c = [h |-> ch_zero(H0), s |-> ch_zero(T0), v |-> origin.c.v]

\* C4 as amended: a zero value gives black; a zero saturation with a
\* non-zero value gives hue zero, saturation zero and the value clamped
\* into its range (unchanged when it is in range already).
C4_GreyClampsValue ==
    ops = <<"new">> =>
        /\ origin.c.v = ch_zero(T0) => IsBlack(cur.c, H0, T0)
        /\ (origin.c.v # ch_zero(T0) /\ origin.c.s = ch_zero(T0)) =>
              /\ cur.c.h = ch_zero(H0)
              /\ cur.c.s = ch_zero(T0)
              /\ Clamped(T0, origin.c.v, cur.c.v)

C4_Witness ==
    /\ ops = <<"new">>
    /\ origin.c.s = ch_zero(T0)
    /\ origin.c.h # ch_zero(H0)
    /\ ch_lt(T0, ch_max(T0), origin.c.v)
    /\ cur.c.v = ch_max(T0)

\* C5: with raw saturation and raw value both non-zero every channel is
\* brought into range on its own: the hue by whole turns, saturation and
\* value by clamping; (-90 degrees, 2.0, -5.0) becomes (270, 1.0, 0.0).
C5_ChannelsIntoRange ==
    ops = <<"new">> =>
        /\ (origin.c.s # ch_zero(T0) /\ origin.c.v # ch_zero(T0)) =>
              /\ Wrapped(H0, origin.c.h, cur.c.h)
              /\ Clamped(T0, origin.c.s, cur.c.s)
              /\ Clamped(T0, origin.c.v, cur.c.v)
        /\ (origin.ty = <<"deg", "f32">> /\ origin.c = TestColor) =>
              /\ cur.c.h = IntToF(270)
              /\ cur.c.s = FOne
              /\ cur.c.v = FZero

C5_Witness ==
    /\ ops = <<"new">>
    /\ origin.ty = <<"deg", "f32">>
    /\ origin.c.h = IntToF(-90)
    /\ origin.c.s = IntToF(2)
    /\ cur.c.h = IntToF(270)
    /\ cur.c.s = FOne
    /\ cur.c.v = FOne

\* Significant bits a channel type resolves.
Precision(t) ==
    CASE t = "u8" -> 8 [] t = "u16" -> 16 [] t = "u32" -> 32 [] OTHER -> MantBits

RoundTripOps == <<"load", "conv", "hsv", "normalize", "rgb", "conv">>

\* C7: an 8-bit RGB color rescaled to float, taken to HSV, normalized,
\* taken back with rgb() and rescaled to 8 bits is the color it was.
C7_RgbRoundTrip ==
    (ops = RoundTripOps /\ prev.ty = <<"f32">> /\ cur.ty = <<"u8">>)
        => ok /\ cur.c = origin.c

C7_Witness ==
    /\ ops = RoundTripOps
    /\ cur.ty = <<"u8">>
    /\ origin.c = [r |-> 128, g |-> 255, b |-> 55]
    /\ cur.c = origin.c

C9_SectorInRange ==
    (Last = "rgb" /\ in_range(prev.ty[1], prev.c.h)) =>
        /\ aux.hue_ok
        /\ aux.sector \in 0 .. 6
        /\ (prev.ty[1] = "deg" /\ prev.c.h[2] >= 0) =>
              aux.sector = FInt(prev.c.h) \div SectorDeg
        /\ prev.c.h = ch_max(prev.ty[1]) =>
              /\ aux.sector = 6
              /\ aux.pre[1] = FMul(cuwtf(prev.ty[2], prev.c.s),
                                   cuwtf(prev.ty[2], prev.c.v))
              /\ aux.pre[2] = FZero

C9_Witness ==
    /\ ops = <<"new", "rgb">>
    /\ prev.c.h = ch_max(prev.ty[1])
    /\ prev.c.s # ch_zero(prev.ty[2])
    /\ aux.sector = 6
    /\ aux.hue_ok

Max3(t, c) ==
    LET m == IF ch_lt(t, c.r, c.g) THEN c.g ELSE c.r
    IN  IF ch_lt(t, m, c.b) THEN c.b ELSE m

Min3(t, c) ==
    LET m == IF ch_lt(t, c.g, c.r) THEN c.g ELSE c.r
    IN  IF ch_lt(t, c.b, m) THEN c.b ELSE m

\* C10: rgb() on a normal color of any saturation/value type T returns
\* components within [zero, max] of T, the largest the color's value and
\* the smallest the value less the chroma (saturation x value as fractions
\* of the range; for an integer T to within one unit of rounding).
C10_RgbScaled ==
    (Last = "rgb" /\ is_normal(prev.ty[1], prev.ty[2], prev.c)) =>
        /\ ok
        /\ in_range(cur.ty[1], cur.c.r)
        /\ in_range(cur.ty[1], cur.c.g)
        /\ in_range(cur.ty[1], cur.c.b)
        /\ INTEGER(cur.ty[1]) =>
              /\ Max3(cur.ty[1], cur.c) = prev.c.v
              /\ Abs(ch_max(cur.ty[1]) * (prev.c.v - Min3(cur.ty[1], cur.c))
                     - prev.c.s * prev.c.v) <= ch_max(cur.ty[1])

====
